---- MODULE Spec2Model ----
(***************************************************************************)
(* Calculation engine of the judicial fee calculator: calc.py (fee         *)
(* brackets, court schedule), date_calc.py (court date), interest_calc.py  *)
(* (calendar interval, simple interest, numeral formatter).                *)
(*                                                                         *)
(* Units.  Amounts are whole yuan.  Fees are exact, in mills (1/1000 yuan) *)
(* so that every rate of the fee tables (0.025 ... 0.001) is an integer    *)
(* number of mills per yuan: 0.025 * a yuan = 25 * a mills.  The two       *)
(* application fees that divide by 2.0 and 3.0 are kept as a fraction      *)
(* <<numerator in mills, denominator>>.                                    *)
(*                                                                         *)
(* Strings.  The Chinese literals of the source are written in ASCII:      *)
(*   "离婚无财产案件"            DivorceNoProperty                         *)
(*   "离婚无财产案件（基数200）"  DivorceNoProperty_Base200                 *)
(*   "人格权侵权案件"            PersonalityRight                          *)
(*   "人格权侵权案件（基数100）"  PersonalityRight_Base100                  *)
(*   "其他非财产案件"            OtherNonProperty                          *)
(*   "劳动人事争议"              LaborDispute                              *)
(*   "行政-商标/专利/海事海商"    AdminTrademarkPatentMaritime              *)
(*   "行政-其他"                 AdminOther                                *)
(*   "公示催告" PublicNotice, "撤销仲裁裁决/认定仲裁效力"                  *)
(*   SetAsideArbitration, "破产" Bankruptcy, "支付令" PaymentOrder         *)
(* A numeral string is the sequence of its characters, each written as a   *)
(* token: 零壹贰叁肆伍陆柒捌玖 are Ling Yi Er San Si Wu Liu Qi Ba Jiu,     *)
(* 拾 佰 仟 are Shi Bai Qian, 万 亿 兆 are Wan Yi8 Zhao, 元 整 角 分 负    *)
(* are Yuan Zheng Jiao Fen Fu; the empty string is the empty sequence.     *)
(***************************************************************************)
EXTENDS Integers, Sequences, FiniteSets, TLC

VARIABLES op, args, result, pc

vars == <<op, args, result, pc>>

(***************************************************************************)
(* Bounds of the model                                                     *)
(***************************************************************************)
\* every bracket edge b is called with b - Spread .. b + Spread
Spread == 1

Min(x, y) == IF x <= y THEN x ELSE y

Max(x, y) == IF x >= y THEN x ELSE y

\* the amounts at which some branch of a fee function changes
Edges ==
    {0, 1000, 10000, 50000, 100000, 200000, 500000, 896000, 1000000,
     2000000, 5000000, 10000000, 20000000, 111640000}

Amounts ==
    {b + d : b \in Edges, d \in (0 - Spread)..Spread}
        \cup {0 - 5000, 600000, 150000000}

(***************************************************************************)
(* calc.py: fee schedule                                                   *)
(***************************************************************************)
\* mutant: the 0.02a + 300 bracket with the offset of a neighbour's typo
Mut_property_WrongOffset(amount) ==
    IF amount <= 0 THEN 0
    ELSE IF amount <= 10000 THEN 50000
    ELSE IF amount <= 100000 THEN amount * 25 - 200000
    ELSE IF amount <= 200000 THEN amount * 20 + 200000
    ELSE IF amount <= 500000 THEN amount * 15 + 1300000
    ELSE IF amount <= 1000000 THEN amount * 10 + 3800000
    ELSE IF amount <= 2000000 THEN amount * 9 + 4800000
    ELSE IF amount <= 5000000 THEN amount * 8 + 6800000
    ELSE IF amount <= 10000000 THEN amount * 7 + 11800000
    ELSE IF amount <= 20000000 THEN amount * 6 + 21800000
    ELSE amount * 5 + 41800000

calc_property_case_fee(amount) ==
    IF amount <= 0 THEN 0
    ELSE IF amount <= 10000 THEN 50000
    ELSE IF amount <= 100000 THEN amount * 25 - 200000
    ELSE IF amount <= 200000 THEN amount * 20 + 300000
    ELSE IF amount <= 500000 THEN amount * 15 + 1300000
    ELSE IF amount <= 1000000 THEN amount * 10 + 3800000
    ELSE IF amount <= 2000000 THEN amount * 9 + 4800000
    ELSE IF amount <= 5000000 THEN amount * 8 + 6800000
    ELSE IF amount <= 10000000 THEN amount * 7 + 11800000
    ELSE IF amount <= 20000000 THEN amount * 6 + 21800000
    ELSE amount * 5 + 41800000

\* mutant: the cap of 5000 forgotten
Mut_preservation_NoCap(amount) ==
    IF amount <= 0 \/ amount <= 1000 THEN 30000
    ELSE IF amount <= 100000 THEN amount * 10 + 20000
    ELSE amount * 5 + 520000

\* mutant: the top branch with the offset 420 instead of 520
Mut_preservation_WrongOffset(amount) ==
    IF amount <= 0 \/ amount <= 1000 THEN 30000
    ELSE IF amount <= 100000 THEN amount * 10 + 20000
    ELSE Min(amount * 5 + 420000, 5000000)

calc_preservation_fee(amount) ==
    IF amount <= 0 \/ amount <= 1000 THEN 30000
    ELSE IF amount <= 100000 THEN amount * 10 + 20000
    ELSE Min(amount * 5 + 520000, 5000000)

\* mutant: the first band not capped at 500,000
Mut_execution_NoBandCap(amount) ==
    IF amount <= 10000 THEN 50000
    ELSE
        LET fee1 == 50000 + Max(0, amount - 10000) * 15
            fee2 == IF amount > 500000
                      THEN fee1 + (Min(amount, 5000000) - 500000) * 10
                      ELSE fee1
            fee3 == IF amount > 5000000
                      THEN fee2 + (Min(amount, 10000000) - 5000000) * 5
                      ELSE fee2
        IN  IF amount > 10000000 THEN fee3 + (amount - 10000000) * 1 ELSE fee3

\* mutant: the third band taken from 500,000 rather than 5,000,000
Mut_execution_WrongBandStart(amount) ==
    IF amount <= 10000 THEN 50000
    ELSE
        LET fee1 == 50000 + Max(0, Min(amount, 500000) - 10000) * 15
            fee2 == IF amount > 500000
                      THEN fee1 + (Min(amount, 5000000) - 500000) * 10
                      ELSE fee1
            fee3 == IF amount > 5000000
                      THEN fee2 + (Min(amount, 10000000) - 500000) * 5
                      ELSE fee2
        IN  IF amount > 10000000 THEN fee3 + (amount - 10000000) * 1 ELSE fee3

calc_execution_fee(amount) ==
    IF amount <= 0 THEN 50000
    ELSE IF amount <= 10000 THEN 50000
    ELSE
        LET fee0 == 50000
            fee1 == fee0 + Max(0, Min(amount, 500000) - 10000) * 15
            fee2 == IF amount > 500000
                      THEN fee1 + (Min(amount, 5000000) - 500000) * 10
                      ELSE fee1
            fee3 == IF amount > 5000000
                      THEN fee2 + (Min(amount, 10000000) - 5000000) * 5
                      ELSE fee2
            fee4 == IF amount > 10000000
                      THEN fee3 + (amount - 10000000) * 1
                      ELSE fee3
        IN  fee4

\* the declared Literal type of the case_type parameter
NonPropertyType ==
    {"DivorceNoProperty", "PersonalityRight", "OtherNonProperty",
     "LaborDispute", "AdminTrademarkPatentMaritime", "AdminOther"}

\* the case-type strings the acceptance dispatch table passes
UiCaseTypes ==
    {"DivorceNoProperty_Base200", "PersonalityRight_Base100",
     "AdminTrademarkPatentMaritime", "AdminOther"}

calc_non_property_case(case_type, amount) ==
    IF case_type = "DivorceNoProperty_Base200" THEN
        IF amount <= 200000 THEN 200000
        ELSE 200000 + (amount - 200000) * 5
    ELSE IF case_type = "PersonalityRight_Base100" THEN
        IF amount <= 50000 THEN 100000
        ELSE IF amount <= 100000 THEN 100000 + (amount - 50000) * 10
        ELSE 100000 + 500000 + (amount - 100000) * 5
    ELSE IF case_type = "OtherNonProperty" THEN 70000
    ELSE IF case_type = "LaborDispute" THEN 10000
    ELSE IF case_type = "AdminTrademarkPatentMaritime" THEN 100000
    ELSE IF case_type = "AdminOther" THEN 50000
    ELSE 0

ApplicationType ==
    {"PublicNotice", "SetAsideArbitration", "Bankruptcy", "PaymentOrder"}

\* mutant: the Bankruptcy cap of 300,000 forgotten
Mut_application_NoCap(app_type, amount) ==
    IF app_type = "PublicNotice" THEN <<100000, 1>>
    ELSE IF app_type = "SetAsideArbitration" THEN <<400000, 1>>
    ELSE IF app_type = "Bankruptcy" THEN <<calc_property_case_fee(amount), 2>>
    ELSE IF app_type = "PaymentOrder" THEN <<calc_property_case_fee(amount), 3>>
    ELSE <<0, 1>>

\* the result is the fraction <<n, d>> = n / d mills
calc_application_fee(app_type, amount) ==
    IF app_type = "PublicNotice" THEN <<100000, 1>>
    ELSE IF app_type = "SetAsideArbitration" THEN <<400000, 1>>
    ELSE IF app_type = "Bankruptcy" THEN
        \* min(fee / 2.0, 300000.0)
        IF calc_property_case_fee(amount) <= 300000000 * 2
          THEN <<calc_property_case_fee(amount), 2>>
          ELSE <<300000000, 1>>
    ELSE IF app_type = "PaymentOrder" THEN
        <<calc_property_case_fee(amount), 3>>
    ELSE <<0, 1>>

(***************************************************************************)
(* The engine as a state machine.  The engine keeps no state between       *)
(* calls: op, args and result are the function called, its arguments and   *)
(* its return value, and pc tells whether the call has returned ("done")   *)
(* or is still to run ("call").                                            *)
(*                                                                         *)
(* The fee functions are called one after the other, any after any, from   *)
(* the idle state.  The calendar interval, the court date, the interest    *)
(* and the numeral formatter are each given one call with its arguments,   *)
(* which the step then runs.                                               *)
(***************************************************************************)
\* the call of o has returned
Returned(o) == op = o /\ pc = "done"

Init ==
    /\ op = "none"
    /\ args = <<>>
    /\ result = 0
    /\ pc = "idle"

PropertyCaseFee ==
    \E a \in Amounts :
        /\ op' = "calc_property_case_fee"
        /\ args' = <<a>>
        /\ result' = calc_property_case_fee(a)
        /\ pc' = "done"

PreservationFee ==
    \E a \in Amounts :
        /\ op' = "calc_preservation_fee"
        /\ args' = <<a>>
        /\ result' = calc_preservation_fee(a)
        /\ pc' = "done"

ExecutionFee ==
    \E a \in Amounts :
        /\ op' = "calc_execution_fee"
        /\ args' = <<a>>
        /\ result' = calc_execution_fee(a)
        /\ pc' = "done"

NonPropertyCase ==
    \E t \in NonPropertyType \cup UiCaseTypes, a \in Amounts :
        /\ op' = "calc_non_property_case"
        /\ args' = <<t, a>>
        /\ result' = calc_non_property_case(t, a)
        /\ pc' = "done"

ApplicationFee ==
    \E t \in ApplicationType, a \in Amounts :
        /\ op' = "calc_application_fee"
        /\ args' = <<t, a>>
        /\ result' = calc_application_fee(t, a)
        /\ pc' = "done"

NextFee ==
    \/ PropertyCaseFee
    \/ PreservationFee
    \/ ExecutionFee
    \/ NonPropertyCase
    \/ ApplicationFee

SpecFee == Init /\ [][NextFee]_vars

(***************************************************************************)
(* interest_calc.py: calendar interval.  A date is <<year, month, day>>.   *)
(***************************************************************************)
\* datetime.MAXYEAR: date.replace raises ValueError beyond it
MAXYEAR == 9999

\* the input dates lie in 2023 .. 2023 + YearSpan, and in the last LateSpan
\* years of the calendar
YearSpan == 2

LateSpan == 1

IsLeap(y) == (y % 4 = 0) /\ ((y % 100 # 0) \/ (y % 400 = 0))

\* calendar.monthrange(y, m)[1]
DaysInMonth(y, m) ==
    IF m = 2 THEN (IF IsLeap(y) THEN 29 ELSE 28)
    ELSE IF m \in {4, 6, 9, 11} THEN 30
    ELSE 31

IsDate(t) ==
    /\ t[1] >= 1 /\ t[1] <= MAXYEAR
    /\ t[2] \in 1..12
    /\ t[3] >= 1 /\ t[3] <= DaysInMonth(t[1], t[2])

\* date.toordinal(): the number of days from 0001-01-01, counted from 1
DaysBeforeMonth(y, m) ==
    <<0, 31, 59, 90, 120, 151, 181, 212, 243, 273, 304, 334>>[m]
        + (IF m > 2 /\ IsLeap(y) THEN 1 ELSE 0)

ToOrdinal(t) ==
    LET y == t[1] - 1
    IN  y * 365 + (y \div 4) - (y \div 100) + (y \div 400)
            + DaysBeforeMonth(t[1], t[2]) + t[3]

\* date.__le__ and date.__gt__
DateLE(s, e) == ToOrdinal(s) <= ToOrdinal(e)

DateGT(s, e) == ~DateLE(s, e)

\* the first loop of calculate_days_between.  It returns <<raised, current,
\* years>>: raised is TRUE when both replace() calls raise ValueError, which
\* the function does not catch.
RECURSIVE AddYears(_, _, _)
AddYears(current, end, years) ==
    LET ny == current[1] + 1
        same == <<ny, current[2], current[3]>>
        fallback == <<ny, current[2], 28>>
        next == IF IsDate(same) THEN same ELSE fallback
    IN  IF ~IsDate(same) /\ ~IsDate(fallback) THEN <<TRUE, current, years>>
        ELSE IF DateLE(next, end) THEN AddYears(next, end, years + 1)
        ELSE <<FALSE, current, years>>

\* mutant: the day of the month not clamped to the length of the next
\* month, so that replace() raises and the loop breaks
RECURSIVE Mut_AddMonths_NoClamp(_, _, _)
Mut_AddMonths_NoClamp(current, end, months) ==
    LET next_month == IF current[2] = 12 THEN 1 ELSE current[2] + 1
        next_year == IF current[2] = 12 THEN current[1] + 1 ELSE current[1]
        next == <<next_year, next_month, current[3]>>
    IN  IF ~IsDate(next) THEN <<current, months>>
        ELSE IF DateLE(next, end)
               THEN Mut_AddMonths_NoClamp(next, end, months + 1)
        ELSE <<current, months>>

\* the second loop: <<current, months>>
RECURSIVE AddMonths(_, _, _)
AddMonths(current, end, months) ==
    LET next_month == IF current[2] = 12 THEN 1 ELSE current[2] + 1
        next_year == IF current[2] = 12 THEN current[1] + 1 ELSE current[1]
        next_day == Min(current[3], DaysInMonth(next_year, next_month))
        next == <<next_year, next_month, next_day>>
    IN  IF ~IsDate(next) THEN <<current, months>>
        ELSE IF DateLE(next, end) THEN AddMonths(next, end, months + 1)
        ELSE <<current, months>>

\* the return value is [raised, ymd]: raised tells that the call ended with
\* an uncaught ValueError (ymd is then <<0, 0, 0>>, and meaningless)
calculate_days_between(start_date, end_date) ==
    IF DateGT(start_date, end_date) THEN [raised |-> FALSE, ymd |-> <<0, 0, 0>>]
    ELSE
        LET ys == AddYears(start_date, end_date, 0)
            ms == AddMonths(ys[2], end_date, 0)
        IN  IF ys[1] THEN [raised |-> TRUE, ymd |-> <<0, 0, 0>>]
            ELSE [raised |-> FALSE,
                  ymd |-> <<ys[3], ms[2], ToOrdinal(end_date) - ToOrdinal(ms[1])>>]

\* the days of the month the input dates fall on: the start, the middle and
\* the end of a month, where the month step clamps
StartDays == {1, 15, 28, 29, 30, 31}

EndDays == {1, 2, 14, 15, 16, 27, 28, 29, 30, 31}

DatesOf(years, days) ==
    {t \in years \X (1..12) \X days : IsDate(t)}

NearYears == 2023..(2023 + YearSpan)

LateYears == (MAXYEAR - LateSpan)..MAXYEAR

\* the pairs <<start, end>> the interval is computed for
DatePairs ==
    (DatesOf(2023..(2023 + YearSpan - 1), StartDays) \X DatesOf(NearYears, EndDays))
        \cup (DatesOf(LateYears, {1, 31}) \X DatesOf(LateYears, {1, 30}))

InitDays ==
    /\ op = "calculate_days_between"
    /\ args \in DatePairs
    /\ result = 0
    /\ pc = "call"

DaysBetween ==
    /\ pc = "call"
    /\ op = "calculate_days_between"
    /\ result' = calculate_days_between(args[1], args[2])
    /\ pc' = "done"
    /\ UNCHANGED <<op, args>>

NextDays == DaysBetween

SpecDays == InitDays /\ [][NextDays]_vars

(***************************************************************************)
(* date_calc.py and calc.py: court date.  Adding a timedelta to a date      *)
(* raises OverflowError when the sum is no date of years 1 .. MAXYEAR.     *)
(***************************************************************************)
\* total_days, and each of notice_days, reply_days and court_day, is at
\* most MaxTotalDays
MaxTotalDays == 16

\* the number of days before January 1st of year y
DaysBeforeYear(y) ==
    (y - 1) * 365 + ((y - 1) \div 4) - ((y - 1) \div 100) + ((y - 1) \div 400)

\* date.fromordinal(n), for 1 <= n <= date.max.toordinal()
FromOrdinal(n) ==
    LET y == CHOOSE c \in ((n \div 366) + 1)..((n \div 365) + 1) :
                 DaysBeforeYear(c) < n /\ n <= DaysBeforeYear(c + 1)
        doy == n - DaysBeforeYear(y)
        m == CHOOSE c \in 1..12 :
                 /\ DaysBeforeMonth(y, c) < doy
                 /\ doy <= DaysBeforeMonth(y, c) + DaysInMonth(y, c)
    IN  <<y, m, doy - DaysBeforeMonth(y, m)>>

\* d + timedelta(days = k) is a date
CanAddDays(d, k) ==
    /\ ToOrdinal(d) + k >= 1
    /\ ToOrdinal(d) + k <= ToOrdinal(<<MAXYEAR, 12, 31>>)

\* d + timedelta(days = k), when it is a date
AddDays(d, k) == FromOrdinal(ToOrdinal(d) + k)

\* date.weekday(): Monday is 0, Sunday is 6
Weekday(d) == (ToOrdinal(d) + 6) % 7

is_weekend(d) == Weekday(d) >= 5

\* mutant: the days to the next Monday counted one short
Mut_days_ahead_OneShort(d) == 6 - Weekday(d)

\* days_ahead of get_next_monday
days_ahead(d) == 7 - Weekday(d)

get_next_monday(d) == AddDays(d, days_ahead(d))

\* the value of a call that ended with an uncaught OverflowError
CourtRaised == [raised |-> TRUE, dates |-> <<>>, final |-> <<0, 0, 0>>]

\* the weekend roll-forward both variants end with: dates are the dates
\* returned before the final one, court_date the computed court date
RollForward(dates, court_date) ==
    IF is_weekend(court_date)
      THEN IF CanAddDays(court_date, days_ahead(court_date))
             THEN [raised |-> FALSE, dates |-> dates,
                   final |-> get_next_monday(court_date)]
             ELSE CourtRaised
      ELSE [raised |-> FALSE, dates |-> dates, final |-> court_date]

\* mutant: the count not started on the day after start_date
Mut_court_NoNextDay(start_date, total_days) ==
    IF total_days < 0
      THEN [raised |-> FALSE, dates |-> <<start_date>>, final |-> start_date]
    ELSE IF ~CanAddDays(start_date, total_days) THEN CourtRaised
    ELSE RollForward(<<AddDays(start_date, total_days)>>,
                     AddDays(start_date, total_days))

\* date_calc.calculate_court_date: the return value (original, final) is
\* [raised, dates = <<original>>, final]
calculate_court_date(start_date, total_days) ==
    IF total_days < 0
      THEN [raised |-> FALSE, dates |-> <<start_date>>, final |-> start_date]
    ELSE IF ~CanAddDays(start_date, 1) THEN CourtRaised
    ELSE
        LET next_day == AddDays(start_date, 1)
        IN  IF total_days > 0 /\ ~CanAddDays(next_day, total_days)
              THEN CourtRaised
            ELSE
                LET current_date == IF total_days > 0
                                      THEN AddDays(next_day, total_days)
                                      ELSE next_day
                IN  RollForward(<<current_date>>, current_date)

\* calc.calculate_court_date: the return value (key_dates, final) is
\* [raised, dates = the first four key dates, final]; the fifth key date is
\* final itself
calculate_court_date4(notice_date, notice_days, reply_days, court_day) ==
    IF ~CanAddDays(notice_date, notice_days) THEN CourtRaised
    ELSE
        LET notice_end == AddDays(notice_date, notice_days)
        IN  IF ~CanAddDays(notice_end, reply_days) THEN CourtRaised
            ELSE
                LET reply_end == AddDays(notice_end, reply_days)
                IN  IF ~CanAddDays(reply_end, court_day) THEN CourtRaised
                    ELSE
                        LET court_date == AddDays(reply_end, court_day)
                        IN  RollForward(<<notice_date, notice_end,
                                          reply_end, court_date>>, court_date)

\* the start dates: the days of three months of a leap year, and the last
\* days of the calendar
CourtDates ==
    {t \in DatesOf({2024}, 1..31) : t[2] \in {2, 6, 12}}
        \cup {t \in DatesOf({MAXYEAR}, 20..31) : t[2] = 12}

TotalDays == (0 - 2)..MaxTotalDays

\* notice, reply and court periods
PeriodDays == {0 - 1, 0, 1, 5, MaxTotalDays}

CourtInputs ==
    {<<"calculate_court_date", <<d, n>>>> : d \in CourtDates, n \in TotalDays}
        \cup {<<"calculate_court_date4", <<d, n, r, c>>>> :
                 d \in CourtDates, n \in PeriodDays, r \in PeriodDays,
                 c \in PeriodDays}

InitCourt ==
    /\ \E i \in CourtInputs : op = i[1] /\ args = i[2]
    /\ result = 0
    /\ pc = "call"

CourtDate ==
    /\ pc = "call"
    /\ op = "calculate_court_date"
    /\ result' = calculate_court_date(args[1], args[2])
    /\ pc' = "done"
    /\ UNCHANGED <<op, args>>

CourtDate4 ==
    /\ pc = "call"
    /\ op = "calculate_court_date4"
    /\ result' = calculate_court_date4(args[1], args[2], args[3], args[4])
    /\ pc' = "done"
    /\ UNCHANGED <<op, args>>

NextCourt ==
    \/ CourtDate
    \/ CourtDate4

SpecCourt == InitCourt /\ [][NextCourt]_vars

(***************************************************************************)
(* interest_calc.py: simple interest.  The float arithmetic is modelled    *)
(* exactly: a number is a fraction <<n, d>> in lowest terms with d > 0.    *)
(* amount is in whole yuan, rate a fraction of a percent.                  *)
(***************************************************************************)
Abs(x) == IF x < 0 THEN 0 - x ELSE x

RECURSIVE GCD(_, _)
GCD(a, b) == IF b = 0 THEN a ELSE GCD(b, a % b)

\* the fraction n / d (d # 0) in lowest terms
Rat(n, d) ==
    LET g == GCD(Abs(n), Abs(d))
        sign == IF d < 0 THEN 0 - 1 ELSE 1
    IN  <<sign * (n \div g), sign * (d \div g)>>

\* p * q, cancelled across before the products are formed
RatMul(p, q) ==
    LET g1 == GCD(Abs(p[1]), q[2])
        g2 == GCD(Abs(q[1]), p[2])
    IN  <<(p[1] \div g1) * (q[1] \div g2), (p[2] \div g2) * (q[2] \div g1)>>

\* round(x, 2), in cents: the nearest cent.  When x lies exactly halfway
\* between two cents the float that stands for it lies on either side (or
\* on the tie, which rounds to the even cent): both cents are outcomes.
Round2(x) ==
    LET c == RatMul(x, <<100, 1>>)
        low == c[1] \div c[2]
        rem == c[1] % c[2]
    IN  IF 2 * rem < c[2] THEN {low}
        ELSE IF 2 * rem > c[2] THEN {low + 1}
        ELSE {low, low + 1}

\* mutant: a day rate annualized with 365 whatever days_base is
Mut_annual_rate_Fixed365(rate, rate_type, days_base) ==
    IF rate_type = "day" THEN RatMul(rate, <<365, 1>>)
    ELSE IF rate_type = "month" THEN RatMul(rate, <<12, 1>>)
    ELSE rate

\* the rate converted to a yearly rate
annual_rate(rate, rate_type, days_base) ==
    IF rate_type = "day" THEN RatMul(rate, <<days_base, 1>>)
    ELSE IF rate_type = "month" THEN RatMul(rate, <<12, 1>>)
    ELSE rate

\* mutant: the days taken from the inclusive range, one more than end - start
Mut_interest_days_Inclusive(start_date, end_date) ==
    ToOrdinal(end_date) - ToOrdinal(start_date) + 1

\* days = (end_date - start_date).days
interest_days(start_date, end_date) ==
    ToOrdinal(end_date) - ToOrdinal(start_date)

\* the outcomes of a call: [value, interest], value the returned amount in
\* cents and interest the local variable that is rounded to it, in yuan
\* (<<0, 1>> when the function returns 0.0 before it computes any)
calculate_interest(amount, rate, rate_type, start_date, end_date, days_base) ==
    IF DateGT(start_date, end_date) \/ amount <= 0 \/ rate[1] <= 0
      THEN {[value |-> 0, interest |-> <<0, 1>>]}
    ELSE
        LET annual == annual_rate(rate, rate_type, days_base)
            days == interest_days(start_date, end_date)
            interest == RatMul(RatMul(<<amount, 1>>, RatMul(annual, <<1, 100>>)),
                               Rat(days, days_base))
        IN  {[value |-> v, interest |-> interest] : v \in Round2(interest)}

InterestAmounts == {0 - 100, 0, 12345, 100000}

\* percent: -1, 0, 1 and 0.05
InterestRates == {<<0 - 1, 1>>, <<0, 1>>, <<1, 1>>, <<1, 20>>}

RateType == {"day", "month", "year"}

YearBasis == {360, 365}

InterestDatePairs ==
    DatesOf({2024}, {1}) \X DatesOf(2023..(2023 + YearSpan - 1), {1, 31})

InterestInputs ==
    {<<a, r, t, p[1], p[2], b>> :
        a \in InterestAmounts, r \in InterestRates, t \in RateType,
        p \in InterestDatePairs, b \in YearBasis}

InitInterest ==
    /\ op = "calculate_interest"
    /\ args \in InterestInputs
    /\ result = 0
    /\ pc = "call"

Interest ==
    /\ pc = "call"
    /\ op = "calculate_interest"
    /\ result' \in calculate_interest(args[1], args[2], args[3], args[4],
                                      args[5], args[6])
    /\ pc' = "done"
    /\ UNCHANGED <<op, args>>

NextInterest == Interest

SpecInterest == InitInterest /\ [][NextInterest]_vars


(***************************************************************************)
(* interest_calc.py: numeral formatter.  The amount num is given as        *)
(* <<negative, whole yuan, mills>>: num = +-(yuan + mills / 1000).         *)
(***************************************************************************)
\* the integer parts are top * 10^8 + mid * 10^4 + low with low and mid
\* among GroupValues and top in 0 .. MaxTopGroup
MaxTopGroup == 2

units == << <<>>, <<"Shi">>, <<"Bai">>, <<"Qian">> >>

big_units == << <<>>, <<"Wan">>, <<"Yi8">>, <<"Zhao">> >>

nums == <<"Ling", "Yi", "Er", "San", "Si", "Wu", "Liu", "Qi", "Ba", "Jiu">>

\* the for loop over the four digits of a group, from step i on:
\* <<part_str, zero_flag>>
RECURSIVE DigitLoop(_, _, _, _)
DigitLoop(i, part, part_str, zero_flag) ==
    IF i > 3 THEN <<part_str, zero_flag>>
    ELSE
        LET digit == part % 10
        IN  IF digit # 0
              THEN DigitLoop(i + 1, part \div 10,
                             <<nums[digit + 1]>> \o units[i + 1] \o part_str,
                             FALSE)
            ELSE IF part_str # <<>> /\ part_str[1] # "Ling"
              THEN DigitLoop(i + 1, part \div 10, <<"Ling">> \o part_str,
                             zero_flag)
            ELSE DigitLoop(i + 1, part \div 10, part_str, zero_flag)

\* the while loop over the groups of four digits: the integer numeral
RECURSIVE GroupLoop(_, _, _, _)
GroupLoop(int_part, group, zero_flag, res) ==
    IF ~(int_part > 0) THEN res
    ELSE
        LET part == int_part % 10000
            ps == DigitLoop(0, part, <<>>, zero_flag)
        IN  IF part = 0
              THEN GroupLoop(int_part \div 10000, group + 1, TRUE,
                             IF ~zero_flag /\ res # <<>>
                               THEN <<"Ling">> \o res ELSE res)
            ELSE GroupLoop(int_part \div 10000, group + 1, ps[2],
                           ps[1] \o big_units[group + 1] \o res)

\* round((num - int_part) * 100), for mills that are no tie (mills % 10 # 5)
RoundedFraction(mills) == (mills + 5) \div 10

\* the return value is [raised, str]: raised tells that the call ended with
\* an uncaught IndexError (nums[10]); str is then empty
convert_to_chinese_number(num) ==
    LET negative == num[1] /\ (num[2] > 0 \/ num[3] > 0)
        int_part == num[2]
        decimal_part == RoundedFraction(num[3])
        integer == IF int_part = 0 THEN <<"Ling">>
                   ELSE GroupLoop(int_part, 0, FALSE, <<>>)
        jiao == decimal_part \div 10
        fen == decimal_part % 10
        tail == IF decimal_part = 0 THEN <<"Zheng">>
                ELSE (IF jiao # 0 THEN <<nums[jiao + 1], "Jiao">> ELSE <<>>)
                       \o (IF fen # 0 THEN <<nums[fen + 1], "Fen">> ELSE <<>>)
    IN  IF jiao > 9 THEN [raised |-> TRUE, str |-> <<>>]
        ELSE [raised |-> FALSE,
              str |-> (IF negative THEN <<"Fu">> ELSE <<>>)
                          \o integer \o <<"Yuan">> \o tail]

GroupValues == {0, 1, 5, 10, 100, 101, 1000, 1001, 1010, 1100, 1234, 2005, 9999}

\* no tie of the rounding to two decimals among them
FractionMills == {0, 4, 10, 50, 120, 990, 994, 996, 999}

NumeralInputs ==
    {<<neg, top * 100000000 + mid * 10000 + low, mills>> :
        neg \in BOOLEAN, top \in 0..MaxTopGroup,
        mid \in GroupValues, low \in GroupValues, mills \in FractionMills}

InitNumeral ==
    /\ op = "convert_to_chinese_number"
    /\ args \in NumeralInputs
    /\ result = 0
    /\ pc = "call"

ConvertToChineseNumber ==
    /\ pc = "call"
    /\ op = "convert_to_chinese_number"
    /\ result' = convert_to_chinese_number(args)
    /\ pc' = "done"
    /\ UNCHANGED <<op, args>>

NextNumeral == ConvertToChineseNumber

SpecNumeral == InitNumeral /\ [][NextNumeral]_vars

(***************************************************************************)
(* Court date: properties                                                  *)
(***************************************************************************)
\* the last day of the calendar, date.max
LastOrdinal == ToOrdinal(<<MAXYEAR, 12, 31>>)

\* the two-argument variant returns (startDate, startDate) for totalDays < 0
NegativeTotalDaysIsNoOp ==
    (Returned("calculate_court_date") /\ args[2] < 0) =>
        result = [raised |-> FALSE, dates |-> <<args[1]>>, final |-> args[1]]

\* calculateCourtDate(2024-06-07, 0) returns (2024-06-08, 2024-06-10)
FridayExample ==
    (Returned("calculate_court_date") /\ args = <<<<2024, 6, 7>>, 0>>) =>
        result = [raised |-> FALSE, dates |-> << <<2024, 6, 8>> >>,
                  final |-> <<2024, 6, 10>>]

\* C11 (as stated): for every start date and every totalDays >= 0 the
\* two-argument calculateCourtDate returns (candidate, final) with candidate
\* = startDate + 1 + totalDays days; for totalDays < 0 it returns
\* (startDate, startDate); calculateCourtDate(2024-06-07, 0) returns
\* (2024-06-08, 2024-06-10).
C11_CandidateForEveryStart ==
    /\ (Returned("calculate_court_date") /\ args[2] >= 0) =>
           /\ ~result.raised
           /\ ToOrdinal(result.dates[1]) = ToOrdinal(args[1]) + 1 + args[2]
    /\ NegativeTotalDaysIsNoOp
    /\ FridayExample

\* C11 (amended): for every start date and every totalDays >= 0 for which
\* startDate + 1 + totalDays is a date of the calendar (no later than
\* 9999-12-31) the call returns (candidate, final) with candidate =
\* startDate + 1 + totalDays days, and otherwise it raises OverflowError;
\* for totalDays < 0 it returns (startDate, startDate);
\* calculateCourtDate(2024-06-07, 0) returns (2024-06-08, 2024-06-10).
C11_CandidateWithinCalendar ==
    /\ (Returned("calculate_court_date") /\ args[2] >= 0) =>
           IF ToOrdinal(args[1]) + 1 + args[2] <= LastOrdinal
             THEN /\ ~result.raised
                  /\ IsDate(result.dates[1])
                  /\ ToOrdinal(result.dates[1])
                         = ToOrdinal(args[1]) + 1 + args[2]
             ELSE result.raised
    /\ NegativeTotalDaysIsNoOp
    /\ FridayExample

C11_Witness ==
    /\ Returned("calculate_court_date")
    /\ args = <<<<2024, 6, 7>>, 0>>
    /\ result.final = <<2024, 6, 10>>

\* C12: in both calculateCourtDate variants (the two-argument one with
\* totalDays >= 0) the final date is never a Saturday or Sunday: it is the
\* court date when that is a weekday, the court date + 2 days when that is
\* a Saturday and + 1 day when it is a Sunday, so final is the first Monday
\* after a weekend court date and final - court date is 0, 1 or 2 days.
C12_FinalIsNeverWeekend ==
    ((\/ Returned("calculate_court_date") /\ args[2] >= 0
      \/ Returned("calculate_court_date4")) /\ ~result.raised) =>
        LET court == result.dates[Len(result.dates)]
            gap == ToOrdinal(result.final) - ToOrdinal(court)
        IN  /\ IsDate(result.final)
            /\ Weekday(result.final) \in 0..4
            /\ Weekday(court) \in 0..4 => gap = 0
            /\ Weekday(court) = 5 => (gap = 2 /\ Weekday(result.final) = 0)
            /\ Weekday(court) = 6 => (gap = 1 /\ Weekday(result.final) = 0)
            /\ gap \in {0, 1, 2}

C12_Witness ==
    /\ Returned("calculate_court_date4")
    /\ ~result.raised
    /\ Weekday(result.dates[4]) = 5
    /\ result.dates[4] = <<2024, 6, 8>>
    /\ result.final = <<2024, 6, 10>>

(***************************************************************************)
(* Interest: properties                                                    *)
(***************************************************************************)
\* the call computes interest: it does not return 0 at once
InterestIsComputed ==
    /\ Returned("calculate_interest")
    /\ DateLE(args[4], args[5])
    /\ args[1] > 0
    /\ args[2][1] > 0

\* the number of periods of the rate in a year
PeriodsPerYear(rate_type, basis) ==
    IF rate_type = "day" THEN basis
    ELSE IF rate_type = "month" THEN 12
    ELSE 1

\* amount * (annualRate / 100) * (days / yearBasis) in cents, as the claim
\* writes it: amount * rate in yuan-percent, times periods * days / basis
ExpectedCents ==
    RatMul(Rat(args[1] * args[2][1], args[2][2]),
           Rat(PeriodsPerYear(args[3], args[6])
                   * (ToOrdinal(args[5]) - ToOrdinal(args[4])), args[6]))

\* C13: calculateInterest returns 0 whenever start > end, amount <= 0 or
\* rate <= 0; otherwise amount * (annualRate/100) * (days/yearBasis) rounded
\* to 2 decimals, days being the calendar day count end - start and
\* annualRate rate*yearBasis, rate*12 or rate.  For amount 100000, rate 1,
\* Month, 2024-01-01 to 2024-07-01, basis 365: days = 182 and the result is
\* 100000*0.12*(182/365) rounded to 2 decimals (5983.56).
C13_InterestIsRoundedProduct ==
    Returned("calculate_interest") =>
        /\ ~InterestIsComputed => result.value = 0
        /\ InterestIsComputed =>
               2 * Abs(result.value * ExpectedCents[2] - ExpectedCents[1])
                   <= ExpectedCents[2]
        /\ args = <<100000, <<1, 1>>, "month", <<2024, 1, 1>>, <<2024, 7, 1>>, 365>>
               => /\ ToOrdinal(args[5]) - ToOrdinal(args[4]) = 182
                  /\ result.interest = Rat(100000 * 12 * 182, 100 * 365)
                  /\ result.value = 598356

C13_Witness ==
    /\ Returned("calculate_interest")
    /\ args = <<100000, <<1, 1>>, "month", <<2024, 1, 1>>, <<2024, 7, 1>>, 365>>
    /\ result.value = 598356

\* C16: in exact arithmetic, for amount > 0, rate > 0 and start <= end, the
\* interest of a Day rate does not depend on yearBasis: with 360 and with
\* 365 it is amount * rate/100 * days; for a Month or Year rate the interest
\* with basis 360 is 365/360 times the interest with basis 365 (interest
\* times yearBasis is the same for both).
C16_DayRateIgnoresBasis ==
    InterestIsComputed =>
        LET days == ToOrdinal(args[5]) - ToOrdinal(args[4])
            other == IF args[6] = 360 THEN 365 ELSE 360
            again == calculate_interest(args[1], args[2], args[3], args[4],
                                        args[5], other)
        IN  /\ args[3] = "day" =>
                 /\ result.interest
                        = RatMul(Rat(args[1] * args[2][1], 100 * args[2][2]),
                                 <<days, 1>>)
                 /\ \A r \in again : r.interest = result.interest
            /\ args[3] \in {"month", "year"} =>
                 \A r \in again :
                     RatMul(r.interest, <<other, 1>>)
                         = RatMul(result.interest, <<args[6], 1>>)

C16_Witness ==
    /\ InterestIsComputed
    /\ args[3] = "day"
    /\ args[6] = 360
    /\ args[1] = 100000
    /\ args[2] = <<1, 20>>
    /\ args[4] = <<2024, 1, 1>> /\ args[5] = <<2024, 7, 1>>
    /\ result.value = 910000

(***************************************************************************)
(* Numeral formatter: properties                                           *)
(***************************************************************************)
Pow10(k) == <<1, 10, 100, 1000, 10000, 100000, 1000000, 10000000,
              100000000, 1000000000>>[k + 1]

DecimalDigit(n, k) == (n \div Pow10(k)) % 10

\* the number of zero gaps of n that lie between two nonzero digits: the
\* zero digits that have a nonzero digit right above and one somewhere below
ZeroGaps(n) ==
    Cardinality({k \in 0..8 :
        /\ DecimalDigit(n, k) = 0
        /\ DecimalDigit(n, k + 1) # 0
        /\ n % Pow10(k) # 0})

\* the characters of a rendering before its "Yuan", the sign left out
IntegerNumeral(str) ==
    LET yuan == CHOOSE i \in 1..Len(str) : str[i] = "Yuan"
        first == IF str[1] = "Fu" THEN 2 ELSE 1
    IN  SubSeq(str, first, yuan - 1)

\* C4: for every non-negative amount the integer part of the rendering obeys
\* the zero rules: a Ling stands only for a zero gap between two nonzero
\* digits or groups (never first unless the integer part is 0, never for the
\* zero low groups of a multiple of 10,000), and no two Ling are adjacent.
C4_ZeroRules ==
    (Returned("convert_to_chinese_number") /\ ~args[1] /\ ~result.raised) =>
        LET n == args[2]
            w == IntegerNumeral(result.str)
            lings == {i \in 1..Len(w) : w[i] = "Ling"}
        IN  /\ n = 0 => w = <<"Ling">>
            /\ n # 0 => w[1] # "Ling"
            /\ n # 0 => Cardinality(lings) <= ZeroGaps(n)
            /\ (n # 0 /\ n % 10000 = 0) => w[Len(w)] # "Ling"
            /\ \A i \in lings : (i + 1) \notin lings

\* the characters of a rendering after its "Yuan"
FractionNumeral(str) ==
    LET yuan == CHOOSE i \in 1..Len(str) : str[i] = "Yuan"
    IN  SubSeq(str, yuan + 1, Len(str))

\* C14: for every amount the rendering is: "Fu" exactly when the amount is
\* negative, the integer numeral, "Yuan", then "Zheng" exactly when the
\* fractional part rounded to 2 digits is zero, otherwise the jiao digit and
\* "Jiao" when it is nonzero and the fen digit and "Fen" when it is nonzero;
\* the rounded fractional part is in 0..99, so jiao and fen are single
\* digits; the rendering of 0 is Ling Yuan Zheng.
C14_RenderingForm ==
    Returned("convert_to_chinese_number") =>
        LET str == result.str
            decimal == (args[3] + 5) \div 10
            jiao == decimal \div 10
            fen == decimal % 10
        IN  /\ ~result.raised
            /\ decimal \in 0..99 /\ jiao \in 0..9 /\ fen \in 0..9
            /\ Cardinality({i \in 1..Len(str) : str[i] = "Yuan"}) = 1
            /\ (str[1] = "Fu") <=> (args[1] /\ (args[2] > 0 \/ args[3] > 0))
            /\ Cardinality({i \in 1..Len(str) : str[i] = "Fu"}) <= 1
            /\ IntegerNumeral(str) # <<>>
            /\ FractionNumeral(str) =
                   IF decimal = 0 THEN <<"Zheng">>
                   ELSE (IF jiao # 0 THEN <<nums[jiao + 1], "Jiao">> ELSE <<>>)
                          \o (IF fen # 0 THEN <<nums[fen + 1], "Fen">> ELSE <<>>)
            /\ (args[2] = 0 /\ args[3] = 0) => str = <<"Ling", "Yuan", "Zheng">>


(***************************************************************************)
(* Calendar interval: properties                                           *)
(***************************************************************************)
\* C2 (as stated): daysBetween(2023-01-31, 2024-02-29) returns (1, 0, 29).
C2_DaysBetweenIs1y0m29d ==
    (Returned("calculate_days_between")
        /\ args = << <<2023, 1, 31>>, <<2024, 2, 29>> >>) =>
            result = [raised |-> FALSE, ymd |-> <<1, 0, 29>>]

\* C2 (amended): daysBetween(2023-01-31, 2024-02-29) returns (1, 1, 0):
\* after the year step to 2024-01-31 the month step, clamped to the length
\* of February 2024, lands on 2024-02-29 and is accepted.
C2_DaysBetweenIs1y1m0d ==
    (Returned("calculate_days_between")
        /\ args = << <<2023, 1, 31>>, <<2024, 2, 29>> >>) =>
            result = [raised |-> FALSE, ymd |-> <<1, 1, 0>>]

C2_Witness ==
    /\ Returned("calculate_days_between")
    /\ args = << <<2023, 1, 31>>, <<2024, 2, 29>> >>
    /\ ~result.raised

\* C3: for every pair of dates start <= end the triple (years, months,
\* days) returned by daysBetween has years >= 0, 0 <= months <= 11 and
\* 0 <= days <= 30.
C3_IntervalIsNormalized ==
    (Returned("calculate_days_between") /\ DateLE(args[1], args[2])
        /\ ~result.raised) =>
            /\ result.ymd[1] >= 0
            /\ result.ymd[2] >= 0 /\ result.ymd[2] <= 11
            /\ result.ymd[3] >= 0 /\ result.ymd[3] <= 30

(***************************************************************************)
(* Fee schedule: properties                                                *)
(***************************************************************************)
\* the part of amount a that lies in the band (lo, hi]
Slice(a, lo, hi) == Max(0, Min(a, hi) - lo)

\* C1 (as stated): executionFee(600000) returns exactly 8300.
C1_ExecutionFee600000Is8300 ==
    (op = "calc_execution_fee" /\ args = <<600000>>) => result = 8300000

\* C1 (amended): executionFee(600000) returns exactly 8400, the sum of its
\* marginal contributions 50 + 0.015*490000 + 0.01*100000.
C1_ExecutionFee600000Is8400 ==
    (op = "calc_execution_fee" /\ args = <<600000>>) =>
        /\ result = 8400000
        /\ result = 50000 + 15 * 490000 + 10 * 100000

C1_Witness ==
    op = "calc_execution_fee" /\ args = <<600000>> /\ result > 50000

\* C5: for each of the six declared NonPropertyType literals
\* nonPropertyCaseFee returns the documented fee, and none of them falls
\* through to the default result 0.
C5_DeclaredCaseTypesHaveTheirFee ==
    (op = "calc_non_property_case" /\ args[1] \in NonPropertyType) =>
        LET t == args[1]
            a == args[2]
        IN  /\ result # 0
            /\ t = "DivorceNoProperty" =>
                 result = IF a <= 200000 THEN 200000
                          ELSE 200000 + 5 * (a - 200000)
            /\ t = "PersonalityRight" =>
                 result = IF a <= 50000 THEN 100000
                          ELSE IF a <= 100000 THEN 100000 + 10 * (a - 50000)
                          ELSE 600000 + 5 * (a - 100000)
            /\ t = "OtherNonProperty" => result = 70000
            /\ t = "LaborDispute" => result = 10000
            /\ t = "AdminTrademarkPatentMaritime" => result = 100000
            /\ t = "AdminOther" => result = 50000

\* the bracket table of propertyCaseFee: <<inclusive upper bound, mills per
\* yuan, offset in mills>>, ascending; the last bracket is unbounded
PropertyBrackets ==
    << <<10000, 0, 50000>>, <<100000, 25, 0 - 200000>>,
       <<200000, 20, 300000>>, <<500000, 15, 1300000>>,
       <<1000000, 10, 3800000>>, <<2000000, 9, 4800000>>,
       <<5000000, 8, 6800000>>, <<10000000, 7, 11800000>>,
       <<20000000, 6, 21800000>> >>

\* C6: propertyCaseFee returns 0 when amount <= 0 and otherwise the affine
\* formula of the first bracket (ascending, inclusive upper bound) that
\* contains the amount; above 20,000,000 it returns 0.005a + 41800.
C6_PropertyFeeIsFirstBracket ==
    op = "calc_property_case_fee" =>
        LET a == args[1]
            hit == {i \in 1..Len(PropertyBrackets) : a <= PropertyBrackets[i][1]}
            first == CHOOSE i \in hit : \A j \in hit : i <= j
        IN  IF a <= 0 THEN result = 0
            ELSE IF hit = {} THEN result = 5 * a + 41800000
            ELSE result = PropertyBrackets[first][2] * a
                              + PropertyBrackets[first][3]

C6_Witness ==
    /\ op = "calc_property_case_fee"
    /\ args[1] > 100000 /\ args[1] <= 200000
    /\ result = 20 * args[1] + 300000

\* C7: executionFee returns 50 when amount <= 10,000 and otherwise 50 plus
\* 1.5% of the part in (10,000, 500,000], 1% of the part in (500,000,
\* 5,000,000], 0.5% of the part in (5,000,000, 10,000,000] and 0.1% of the
\* part above 10,000,000.
C7_ExecutionFeeIsMarginal ==
    op = "calc_execution_fee" =>
        LET a == args[1]
        IN  IF a <= 10000 THEN result = 50000
            ELSE result = 50000 + 15 * Slice(a, 10000, 500000)
                                + 10 * Slice(a, 500000, 5000000)
                                + 5 * Slice(a, 5000000, 10000000)
                                + 1 * Max(0, a - 10000000)

C7_Witness ==
    /\ op = "calc_execution_fee"
    /\ args[1] > 10000000
    /\ result > 50000 + 15 * 490000 + 10 * 4500000 + 5 * 5000000

\* C8: preservationFee returns 30 when amount <= 1,000, 0.01a + 20 when
\* 1,000 < amount <= 100,000 and min(0.005a + 520, 5000) above; the result
\* lies in [30, 5000] and preservationFee(10,000,000) = 5000.
C8_PreservationFee ==
    op = "calc_preservation_fee" =>
        LET a == args[1]
        IN  /\ a <= 1000 => result = 30000
            /\ (a > 1000 /\ a <= 100000) => result = 10 * a + 20000
            /\ a > 100000 => result = Min(5 * a + 520000, 5000000)
            /\ result >= 30000 /\ result <= 5000000
            /\ a = 10000000 => result = 5000000

C8_Witness ==
    /\ op = "calc_preservation_fee"
    /\ args = <<10000000>>
    /\ result = 5000000

\* the steepest rate of each bracket function, in mills per yuan
MaxRate(o) ==
    IF o = "calc_property_case_fee" THEN 25
    ELSE IF o = "calc_preservation_fee" THEN 10
    ELSE 15

BracketOps ==
    {"calc_property_case_fee", "calc_preservation_fee", "calc_execution_fee"}

\* two calls of the same bracket function, one after the other
SameBracketOp == op \in BracketOps /\ op' = op

\* a <= b implies fee(a) <= fee(b)
NonDecreasingStep ==
    (SameBracketOp /\ args[1] <= args'[1]) => result <= result'

\* from one yuan to the next the fee grows by no more than the steepest
\* rate of the function: no branch change makes the fee jump
NoJumpStep ==
    (SameBracketOp /\ args'[1] = args[1] + 1) => result' - result <= MaxRate(op)

\* C9 (as stated): propertyCaseFee, preservationFee and executionFee are
\* non-decreasing and have no jump at any amount where the branch changes.
C9_NonDecreasingAndNoJump ==
    [][NonDecreasingStep /\ NoJumpStep]_vars

\* C9 (amended): the three functions are non-decreasing, and have no jump
\* at any amount where the branch changes except propertyCaseFee at amount
\* 0, where the fee jumps from 0 to 50.
C9_NonDecreasingNoJumpButAtZero ==
    [][/\ NonDecreasingStep
       /\ (op = "calc_property_case_fee" /\ args[1] = 0) \/ NoJumpStep
       /\ (op = "calc_property_case_fee" /\ op' = op
               /\ args[1] = 0 /\ args'[1] = 1) => result' - result = 50000
      ]_vars

C9_Witness ==
    /\ op = "calc_property_case_fee"
    /\ args = <<200001>>
    /\ result = calc_property_case_fee(200000) + 15

\* C10: applicationFee returns 100 for PublicNotice, 400 for
\* SetAsideArbitration, min(propertyCaseFee(amount)/2, 300,000) for
\* Bankruptcy and propertyCaseFee(amount)/3 for PaymentOrder; the
\* Bankruptcy result never exceeds 300,000.
C10_ApplicationFee ==
    (op = "calc_application_fee" /\ args[1] \in ApplicationType) =>
        LET t == args[1]
            p == calc_property_case_fee(args[2])
            n == result[1]
            d == result[2]
        IN  /\ d \in {1, 2, 3}
            /\ t = "PublicNotice" => n = 100000 * d
            /\ t = "SetAsideArbitration" => n = 400000 * d
            /\ t = "Bankruptcy" =>
                 /\ 2 * n = d * Min(p, 2 * 300000000)
                 /\ n <= 300000000 * d
            /\ t = "PaymentOrder" => (d = 3 /\ n = p)

C10_Witness ==
    /\ op = "calc_application_fee"
    /\ args[1] = "Bankruptcy"
    /\ calc_property_case_fee(args[2]) > 2 * 300000000
    /\ result = <<300000000, 1>>

(***************************************************************************)
(* The engine as a whole: properties                                       *)
(***************************************************************************)
\* C15: no engine function raises on out-of-domain input: for every
\* non-positive amount propertyCaseFee returns 0, preservationFee 30,
\* executionFee 50 and calculateInterest 0; for every reversed date range
\* daysBetween returns (0, 0, 0) and calculateInterest 0; and daysBetween
\* returns a result, without raising, for every pair of dates start <= end.
C15_EngineNeverRaises ==
    /\ (op = "calc_property_case_fee" /\ args[1] <= 0) => result = 0
    /\ (op = "calc_preservation_fee" /\ args[1] <= 0) => result = 30000
    /\ (op = "calc_execution_fee" /\ args[1] <= 0) => result = 50000
    /\ (Returned("calculate_interest")
            /\ (args[1] <= 0 \/ DateGT(args[4], args[5]))) => result.value = 0
    /\ (Returned("calculate_days_between") /\ DateGT(args[1], args[2])) =>
           result = [raised |-> FALSE, ymd |-> <<0, 0, 0>>]
    /\ (Returned("calculate_days_between") /\ DateLE(args[1], args[2])) =>
           ~result.raised

====
